---- MODULE Spec2Model ----
(***************************************************************************)
(* A model of the bus-times aggregation engine (BODSService) and of the    *)
(* two NodeCache instances the server hands to it.                         *)
(*                                                                         *)
(* Time is counted in seconds (the source counts milliseconds; every       *)
(* quantity the engine compares is a whole number of seconds here).        *)
(* Math.random() is modelled as k / RandDen, k \in 0 .. RandDen-1; the     *)
(* draws of one call are Rand(seed, 0), Rand(seed, 1), ... for the seed    *)
(* the call finds in the generator when it starts.                         *)
(***************************************************************************)
EXTENDS Integers, Sequences, FiniteSets, TLC

\* ------------------------------------------------------------------ bounds
MaxReq == 2             \* concurrent GET /api/bus-times/:stopId requests
\* cache misses of the single-stop requests of one behaviour, the misses on
\* an expired entry apart (the clock bounds those)
MaxFetches == 2
MaxFanouts == 1         \* fan-outs over all stops of one behaviour
RandDen == 4            \* Math.random() takes the values k / RandDen
NSeeds == 1             \* the initial states of the random number generator
MaxVehReq == 2          \* concurrent GET /api/vehicles
MaxDatasets == 2        \* the datasets of one fetchTimetableData call
\* the amounts (seconds) by which the clock advances, one after the other:
\* the instants of a behaviour are 0, 240 and 301
TickSteps == << 240, 61 >>

\* ------------------------------------------------------- program constants
CACHE_TTL == 300
VEHICLE_CACHE_TTL == 30
FALLBACK_TTL == 60
MaxServices == 8
MaxFallbackServices == 6
FallbackCount == 4
DepartureCount == 8
DefaultFrequency == 30
AverageSpeed == 25
MaxDistanceKm == 3

\* ------------------------------------------------------------ stop registry
StandO == "079073279A"
StandP == "079073279B"
StandQ == "079073279C"

\* Object.keys(this.stops): the declaration order of the registry
StopKeys == << StandO, StandP, StandQ >>

Registered == { StopKeys[i] : i \in 1..Len(StopKeys) }

stops ==
  [ s \in Registered |->
      CASE s = StandO -> [ name |-> "Cleveland Centre (Stand O)",
                           operators |-> << "Stagecoach" >>,
                           routes |-> << "10", "12", "13", "14" >>,
                           datasets |-> << "18509" >> ]
        [] s = StandP -> [ name |-> "Cleveland Centre (Stand P)",
                           operators |-> << "Arriva" >>,
                           routes |-> << "17A", "17B" >>,
                           datasets |-> << "15890" >> ]
        [] s = StandQ -> [ name |-> "Cleveland Centre (Stand Q)",
                           operators |-> << "Arriva" >>,
                           routes |-> << "29", "63" >>,
                           datasets |-> << "15890" >> ] ]

\* this.stops is a plain object literal: a key it does not own is still
\* found when Object.prototype has it (its value has neither datasets nor
\* routes).
InheritedKeys == { "constructor" }

\* this.stops[stopId]: "config" (an own key), "inherited" (truthy, but no
\* stop configuration) or "undefined"
StopLookup(stopId) ==
  IF stopId \in Registered THEN "config"
  ELSE IF stopId \in InheritedKeys THEN "inherited"
  ELSE "undefined"

\* the stop ids a request may carry
RequestIds == Registered \cup { "NOPE" } \cup InheritedKeys

estimateFrequency(lineName) ==
  CASE lineName = "10" -> 20
    [] lineName = "12" -> 30
    [] lineName = "13" -> 25
    [] lineName = "14" -> 35
    [] lineName = "17A" -> 15
    [] lineName = "17B" -> 20
    [] lineName = "29" -> 40
    [] lineName = "63" -> 45
    [] OTHER -> DefaultFrequency

getDestinationForRoute(routeNumber) ==
  CASE routeNumber = "10" -> "Lingfield Park"
    [] routeNumber \in { "12", "13" } -> "Coulby Newham"
    [] routeNumber = "14" -> "Trimdon Avenue"
    [] routeNumber = "17A" -> "Stockton via Ingleby Barwick"
    [] routeNumber = "17B" -> "Stockton via Thornaby"
    [] routeNumber \in { "29", "63" } -> "Redcar"
    [] OTHER -> "City Centre"

\* ------------------------------------------------------------- randomness
Seeds == { RandDen - 1 - k : k \in 0 .. (NSeeds - 1) }

\* the n-th draw (n = 0, 1, ...) of a step with seed `seed`: numerator of
\* Math.random() over RandDen
Rand(seed, n) == (seed + n) % RandDen

Variation_Wide(k, span) == ((2 * k - RandDen) * span * 60) \div RandDen

\* (Math.random() - 0.5) * span * 60000 ms, in whole seconds (new Date()
\* drops the fraction of the time it is given)
Variation(k, span) == ((2 * k - RandDen) * span * 30) \div RandDen

Abs(x) == IF x < 0 THEN -x ELSE x

\* ------------------------------------------------------------------ status
\* diff is in minutes in the source; the thresholds 2, 5, 3 are 120, 300
\* and 180 seconds
determineStatus(scheduled, estimated) ==
  LET diff == estimated - scheduled IN
  IF Abs(diff) < 120 THEN "onTime"
  ELSE IF diff > 300 THEN "delayed"
  ELSE IF diff < -180 THEN "early"
  ELSE "estimated"

\* ------------------------------------------------- schedule (TransXChange)
\* One entry of a route's timetable: {scheduled, estimated, status}
TimeEntry(scheduled, estimated) ==
  [ scheduled |-> scheduled, estimated |-> estimated,
    status |-> determineStatus(scheduled, estimated) ]

RECURSIVE generateDepartureTimes(_, _, _, _, _)
\* the departures i = count-1, count-2, ..., 0 are produced by the recursion
\* on `count`; the draw of departure i is draw number base + i
generateDepartureTimes(startTime, frequency, count, seed, base) ==
  IF count = 0 THEN << >>
  ELSE LET i == count - 1
           departureTime == startTime + frequency * i * 60
           adjustedTime == departureTime + Variation(Rand(seed, base + i), 4)
           rest == generateDepartureTimes(startTime, frequency, i, seed, base)
       IN IF adjustedTime > startTime
          THEN Append(rest, TimeEntry(departureTime, adjustedTime))
          ELSE rest

\* A schedule document, as far as the parser reads it: wellFormed (xml2js
\* parses it), hasServices (TransXChange.Services is there) and its
\* services, each with its line (hasLine), the line's attributes (hasAttrs:
\* line.$ is defined), id attribute ("" when absent), LineName ("" when
\* absent) and the number of journey patterns that carry a TimingLinkRef.
Svc(id, lineName, patterns) ==
  [ hasLine |-> TRUE, hasAttrs |-> TRUE, id |-> id, lineName |-> lineName,
    patterns |-> patterns ]

DocMalformed == [ wellFormed |-> FALSE, hasServices |-> FALSE, services |-> << >> ]

DocStagecoach ==
  [ wellFormed |-> TRUE, hasServices |-> TRUE,
    services |-> << Svc("10", "10", 1), Svc("12", "12", 0) >> ]

DocArriva ==
  [ wellFormed |-> TRUE, hasServices |-> TRUE,
    services |-> << Svc("17A", "17A", 1), Svc("29", "29", 2), Svc("X5", "X5", 1) >> ]

\* the second Line carries no attribute at all
DocNoAttrs ==
  [ wellFormed |-> TRUE, hasServices |-> TRUE,
    services |-> << Svc("13", "13", 1),
                    [ hasLine |-> TRUE, hasAttrs |-> FALSE, id |-> "",
                      lineName |-> "14", patterns |-> 1 ] >> ]

\* the documents a download of dataset `datasetId` may deliver
Docs(datasetId) ==
  IF datasetId = "18509" THEN { DocNoAttrs, DocStagecoach }
  ELSE { DocMalformed, DocArriva }

RECURSIVE extractServiceTimes(_, _, _, _)
\* one generateDepartureTimes(now, baseFreq, 8) per journey pattern with a
\* TimingLinkRef, appended in pattern order
extractServiceTimes(service, patterns, startTime, seed) ==
  IF patterns = 0 THEN << >>
  ELSE extractServiceTimes(service, patterns - 1, startTime, seed)
       \o generateDepartureTimes(startTime, estimateFrequency(service.lineName),
                                 DepartureCount, seed,
                                 (patterns - 1) * DepartureCount)

\* Object.assign(target, source) on objects keyed by line reference
ObjectAssign_Union(target, source) ==
  [ k \in (DOMAIN target) \cup (DOMAIN source) |->
      IF k \in DOMAIN source /\ k \in DOMAIN target THEN target[k] \o source[k]
      ELSE IF k \in DOMAIN source THEN source[k]
      ELSE target[k] ]

ObjectAssign(target, source) ==
  [ k \in (DOMAIN target) \cup (DOMAIN source) |->
      IF k \in DOMAIN source THEN source[k] ELSE target[k] ]

EmptyObject == [ k \in {} |-> << >> ]

RECURSIVE parseServices(_, _, _, _)
\* the loop over serviceArray, by the number n of services already handled;
\* the result is [threw |-> ..., services |-> ...]
parseServices(doc, n, startTime, seed) ==
  IF n = 0 THEN [ threw |-> FALSE, services |-> EmptyObject ]
  ELSE LET before == parseServices(doc, n - 1, startTime, seed)
           service == doc.services[n]
           lineRef == IF service.id # "" THEN service.id ELSE service.lineName
       IN IF before.threw THEN before
          ELSE IF ~ service.hasLine THEN before
          ELSE IF ~ service.hasAttrs THEN [ before EXCEPT !.threw = TRUE ]
          ELSE IF lineRef = "" THEN before
          ELSE [ before EXCEPT !.services =
                   ObjectAssign(@, [ k \in { lineRef } |->
                     extractServiceTimes(service, service.patterns, startTime, seed) ]) ]

parseTransXChange(doc, startTime, seed) ==
  IF ~ doc.wellFormed THEN EmptyObject
  ELSE IF ~ doc.hasServices THEN EmptyObject
  ELSE LET r == parseServices(doc, Len(doc.services), startTime, seed)
       IN IF r.threw THEN EmptyObject ELSE r.services

\* ------------------------------------------------------- live feed (SIRI-VM)
Vehicle(vehicleRef, lineRef, routeNumber) ==
  [ vehicleRef |-> vehicleRef, lineRef |-> lineRef, routeNumber |-> routeNumber ]

\* A live document, as far as the parser reads it: wellFormed and the
\* monitored journeys of its VehicleActivity records (LineRef and
\* PublishedLineName, "" when absent).
FeedMalformed == [ wellFormed |-> FALSE, journeys |-> << >> ]

FeedLive ==
  [ wellFormed |-> TRUE,
    journeys |-> << [ VehicleRef |-> "v1", LineRef |-> "10", PublishedLineName |-> "10" ],
                    [ VehicleRef |-> "v2", LineRef |-> "17A", PublishedLineName |-> "17" ],
                    [ VehicleRef |-> "v3", LineRef |-> "17B", PublishedLineName |-> "17B" ],
                    [ VehicleRef |-> "", LineRef |-> "", PublishedLineName |-> "29" ],
                    [ VehicleRef |-> "v4", LineRef |-> "63", PublishedLineName |-> "63" ],
                    [ VehicleRef |-> "v5", LineRef |-> "X5", PublishedLineName |-> "" ] >> ]

Feeds == { FeedMalformed, FeedLive }

parseSIRIVM(feed) ==
  IF ~ feed.wellFormed THEN << >>
  ELSE [ i \in 1 .. Len(feed.journeys) |->
           LET journey == feed.journeys[i] IN
           Vehicle(IF journey.VehicleRef # "" THEN journey.VehicleRef ELSE "unknown",
                   IF journey.LineRef # "" THEN journey.LineRef ELSE "unknown",
                   IF journey.PublishedLineName # "" THEN journey.PublishedLineName
                   ELSE journey.LineRef) ]

\* ---------------------------------------------------------------- services
\* a Service object as processBusServices and generateFallbackForRoute push
\* it; enhancements counts how often enhanceWithVehicleData has overwritten
\* its estimatedTime, status and source
Service(routeNumber, operator, scheduledTime, estimatedTime, status, source) ==
  [ routeNumber |-> routeNumber,
    destination |-> getDestinationForRoute(routeNumber),
    operator |-> operator,
    scheduledTime |-> scheduledTime,
    estimatedTime |-> estimatedTime,
    status |-> status,
    source |-> source,
    enhancements |-> 0 ]

\* a.estimatedTime || a.scheduledTime: every Service is built with a Date as
\* estimatedTime, and a Date is never falsy
EffectiveTime(service) == service.estimatedTime

Min(a, b) == IF a < b THEN a ELSE b

Max(a, b) == IF a > b THEN a ELSE b

\* the 4 synthesized departures of a route; draw number base + i for i = 0..3
generateFallbackForRoute(routeNumber, operator, startTime, seed, base) ==
  [ n \in 1 .. FallbackCount |->
      LET i == n - 1
          baseTime == startTime + estimateFrequency(routeNumber) * i * 60
          variation == Variation(Rand(seed, base + i), 6)
      IN Service(routeNumber, operator, baseTime, baseTime + variation,
                 determineStatus(baseTime, baseTime + variation), "fallback") ]

calculateETA_Unfloored(k) ==
  (2 * MaxDistanceKm * 60 * k + AverageSpeed * RandDen) \div (2 * AverageSpeed * RandDen)

\* Math.max(1, Math.round((distance / averageSpeed) * 60)) with
\* distance = Math.random() * 3, in minutes (Math.round rounds half up)
calculateETA(k) ==
  Max(1, (2 * MaxDistanceKm * 60 * k + AverageSpeed * RandDen)
           \div (2 * AverageSpeed * RandDen))

Matches(vehicle, service) ==
  vehicle.routeNumber = service.routeNumber \/ vehicle.lineRef = service.routeNumber

enhanceWithVehicleData_KeepStatus(services, vehicles, time, seed, base) ==
  [ j \in 1 .. Len(services) |->
      IF \E v \in 1 .. Len(vehicles) : Matches(vehicles[v], services[j])
      THEN [ services[j] EXCEPT
               !.estimatedTime = time + calculateETA(Rand(seed, base + j - 1)) * 60,
               !.source = "vehicle_tracking",
               !.enhancements = @ + 1 ]
      ELSE services[j] ]

\* every service with a matching vehicle gets estimatedTime, status and
\* source overwritten (estimatedMinutes > 0 always holds: it is at least 1);
\* the draw of service j is draw number base + j - 1
enhanceWithVehicleData(services, vehicles, time, seed, base) ==
  [ j \in 1 .. Len(services) |->
      IF \E v \in 1 .. Len(vehicles) : Matches(vehicles[v], services[j])
      THEN LET estimatedMinutes == calculateETA(Rand(seed, base + j - 1)) IN
           IF estimatedMinutes > 0
           THEN [ services[j] EXCEPT
                    !.estimatedTime = time + estimatedMinutes * 60,
                    !.status = "live",
                    !.source = "vehicle_tracking",
                    !.enhancements = @ + 1 ]
           ELSE services[j]
      ELSE services[j] ]

RECURSIVE InsertSorted(_, _)
\* `service` put after every element of the sorted `sorted` that is not
\* later than it (Array.prototype.sort is stable)
InsertSorted(sorted, service) ==
  IF sorted = << >> THEN << service >>
  ELSE IF EffectiveTime(sorted[Len(sorted)]) <= EffectiveTime(service)
       THEN Append(sorted, service)
       ELSE Append(InsertSorted(SubSeq(sorted, 1, Len(sorted) - 1), service),
                   sorted[Len(sorted)])

RECURSIVE SortPrefix(_, _)
SortPrefix(services, n) ==
  IF n = 0 THEN << >> ELSE InsertSorted(SortPrefix(services, n - 1), services[n])

SortByTime_Unsorted(services) == services

\* services.sort((a, b) => (a.estimatedTime || a.scheduledTime)
\*                         - (b.estimatedTime || b.scheduledTime))
SortByTime(services) == SortPrefix(services, Len(services))

\* services.slice(0, count)
Slice(services, count) == SubSeq(services, 1, Min(Len(services), count))

RECURSIVE mergeRoutes_SkipEmpty(_, _, _, _, _)
mergeRoutes_SkipEmpty(stopConfig, timetableData, n, time, seed) ==
  IF n = 0 THEN << >>
  ELSE LET routeNumber == stopConfig.routes[n]
           before == mergeRoutes_SkipEmpty(stopConfig, timetableData, n - 1, time, seed)
       IN IF routeNumber \in DOMAIN timetableData /\ Len(timetableData[routeNumber]) > 0
          THEN before \o
               [ t \in 1 .. Len(timetableData[routeNumber]) |->
                   LET timeData == timetableData[routeNumber][t] IN
                   Service(routeNumber, stopConfig.operators[1], timeData.scheduled,
                           timeData.estimated, timeData.status, "timetable") ]
          ELSE before

RECURSIVE mergeRoutes(_, _, _, _, _)
\* the loop over stopConfig.routes of processBusServices, by the number n of
\* routes already handled
mergeRoutes(stopConfig, timetableData, n, time, seed) ==
  IF n = 0 THEN << >>
  ELSE LET routeNumber == stopConfig.routes[n]
           before == mergeRoutes(stopConfig, timetableData, n - 1, time, seed)
       IN IF routeNumber \in DOMAIN timetableData /\ Len(timetableData[routeNumber]) > 0
          THEN before \o
               [ t \in 1 .. Len(timetableData[routeNumber]) |->
                   LET timeData == timetableData[routeNumber][t] IN
                   Service(routeNumber, stopConfig.operators[1], timeData.scheduled,
                           timeData.estimated, timeData.status, "timetable") ]
          ELSE before \o
               generateFallbackForRoute(routeNumber, stopConfig.operators[1], time,
                                        seed, (n - 1) * FallbackCount)

RECURSIVE scheduledOf(_, _, _)
\* one Service per schedule entry of every line in `lines`
scheduledOf(timetableData, lines, operator) ==
  IF lines = {} THEN << >>
  ELSE LET line == CHOOSE l \in lines : TRUE IN
       [ t \in 1 .. Len(timetableData[line]) |->
           Service(line, operator, timetableData[line][t].scheduled,
                   timetableData[line][t].estimated, timetableData[line][t].status,
                   "timetable") ]
         \o scheduledOf(timetableData, lines \ { line }, operator)

processBusServices_AllLines(stopConfig, timetableData, vehicles, time, seed) ==
  LET routes == { stopConfig.routes[n] : n \in DOMAIN stopConfig.routes }
      services == mergeRoutes(stopConfig, timetableData, Len(stopConfig.routes),
                              time, seed)
                    \o scheduledOf(timetableData, (DOMAIN timetableData) \ routes,
                                   stopConfig.operators[1])
      enhanced == enhanceWithVehicleData(services, vehicles, time, seed,
                                         Len(stopConfig.routes) * FallbackCount)
  IN Slice(SortByTime(enhanced), MaxServices)

processBusServices_ReEnhance(stopConfig, timetableData, vehicles, time, seed) ==
  LET services == mergeRoutes(stopConfig, timetableData, Len(stopConfig.routes),
                              time, seed)
      once == enhanceWithVehicleData(services, vehicles, time, seed,
                                     Len(stopConfig.routes) * FallbackCount)
      enhanced == enhanceWithVehicleData(once, vehicles, time, seed,
                                         Len(stopConfig.routes) * FallbackCount)
  IN Slice(SortByTime(enhanced), MaxServices)

processBusServices(stopConfig, timetableData, vehicles, time, seed) ==
  LET services == mergeRoutes(stopConfig, timetableData, Len(stopConfig.routes),
                              time, seed)
      enhanced == enhanceWithVehicleData(services, vehicles, time, seed,
                                         Len(stopConfig.routes) * FallbackCount)
  IN Slice(SortByTime(enhanced), MaxServices)

RECURSIVE fallbackRoutes(_, _, _, _)
fallbackRoutes(stopConfig, n, time, seed) ==
  IF n = 0 THEN << >>
  ELSE fallbackRoutes(stopConfig, n - 1, time, seed) \o
       generateFallbackForRoute(stopConfig.routes[n], stopConfig.operators[1], time,
                                seed, (n - 1) * FallbackCount)

\* [threw, list]: for a key this.stops only inherits, stopConfig.routes is
\* undefined and the for-of over it throws a TypeError
getFallbackDataForStop(stopId, time, seed) ==
  CASE StopLookup(stopId) = "undefined" -> [ threw |-> FALSE, list |-> << >> ]
    [] StopLookup(stopId) = "inherited" -> [ threw |-> TRUE, list |-> << >> ]
    [] OTHER ->
         [ threw |-> FALSE,
           list |-> Slice(SortByTime(fallbackRoutes(stops[stopId],
                                                    Len(stops[stopId].routes),
                                                    time, seed)),
                          MaxFallbackServices) ]

\* ------------------------------------------------------------ next bus scan
RECURSIVE flattenAllData(_, _)
\* Object.values(allData), list after list, in the insertion order of the keys
flattenAllData(allData, n) ==
  IF n = 0 THEN << >> ELSE flattenAllData(allData, n - 1) \o allData[n].services

RECURSIVE scanNextBus_LastWins(_, _)
scanNextBus_LastWins(services, n) ==
  IF n = 0 THEN << >>
  ELSE LET before == scanNextBus_LastWins(services, n - 1) IN
       IF before = << >> \/ EffectiveTime(services[n]) <= EffectiveTime(before[1])
       THEN << services[n] >>
       ELSE before

RECURSIVE scanNextBus(_, _)
\* nextBus after the first n services: << >> is null, << s >> is the service;
\* a later service replaces nextBus only when it is strictly earlier
scanNextBus(services, n) ==
  IF n = 0 THEN << >>
  ELSE LET before == scanNextBus(services, n - 1) IN
       IF before = << >> \/ EffectiveTime(services[n]) < EffectiveTime(before[1])
       THEN << services[n] >>
       ELSE before

\* ------------------------------------------------------------------ caches
VehicleKey == "vehicle_positions"

EmptyCache == [ k \in {} |-> [ v |-> << >>, t |-> 0 ] ]

\* node-cache's expiry test on a read: the entry's expiry time lies before now
Expired(entry, time) == entry.t < time

NodeCacheGet_Renew(c, key, time) ==
  IF key \in DOMAIN c /\ ~ Expired(c[key], time)
  THEN [ found |-> TRUE, value |-> c[key].v,
         cache |-> [ c EXCEPT ![key].t = time + CACHE_TTL ] ]
  ELSE [ found |-> FALSE, value |-> << >>,
         cache |-> [ k \in (DOMAIN c) \ { key } |-> c[k] ] ]

\* cache.get(key): the value of a live entry; an expired entry is deleted
\* and reads as undefined; cache is the cache after the read
NodeCacheGet(c, key, time) ==
  IF key \in DOMAIN c /\ ~ Expired(c[key], time)
  THEN [ found |-> TRUE, value |-> c[key].v, cache |-> c ]
  ELSE [ found |-> FALSE, value |-> << >>,
         cache |-> [ k \in (DOMAIN c) \ { key } |-> c[k] ] ]

NodeCacheSet_Merge(c, key, value, ttl, time) ==
  [ k \in (DOMAIN c) \cup { key } |->
      IF k # key THEN c[k]
      ELSE [ v |-> IF key \in DOMAIN c THEN c[key].v \o value ELSE value,
             t |-> time + ttl ] ]

NodeCacheSet_NoTtl(c, key, value, ttl, time) ==
  [ k \in (DOMAIN c) \cup { key } |->
      IF k = key THEN [ v |-> value, t |-> time ] ELSE c[k] ]

\* cache.set(key, value, ttl); useClones is false, the value is stored as is
NodeCacheSet(c, key, value, ttl, time) ==
  [ k \in (DOMAIN c) \cup { key } |->
      IF k = key THEN [ v |-> value, t |-> time + ttl ] ELSE c[k] ]

\* the periodic check (checkperiod): every expired entry is deleted
NodeCacheCheckData(c, time) ==
  [ k \in { x \in DOMAIN c : ~ Expired(c[x], time) } |-> c[k] ]

\* ------------------------------------------------------------------- state
VARIABLES
  now,           \* the wall clock, in seconds
  cache,         \* the service cache: stop id -> [v, t]
  vehicleCache,  \* the live-vehicle cache: key -> [v, t]
  cacheHit,      \* BODSService.cacheHit
  calls,         \* the getBusTimesForStop calls in flight
  glob,          \* the fan-out (getAllClevelandCentreData) in flight, if any
  resp,          \* the last getBusTimesForStop call that returned or threw
                 \* since the last flush
  fetches,       \* the cache misses so far (bounded by MaxFetches)
  fanouts,       \* the fan-outs so far (bounded by MaxFanouts)
  ticks,         \* the clock advances so far
  rng,           \* the state of Math.random's generator
  vreq,          \* the GET /api/vehicles requests: those in flight and the
                 \* last response
  stage,         \* the last run of processBusServices made on its own: its
                 \* arguments and its list after each of its steps
  fetch          \* the last run of fetchTimetableData made on its own

vars == << now, cache, vehicleCache, cacheHit, calls, glob, resp, fetches, fanouts,
           ticks, rng, vreq, stage, fetch >>

Reqs == 1 .. MaxReq

VehReqs == 1 .. MaxVehReq

\* the call a fan-out makes for StopKeys[i]
Child(i) == MaxReq + i

Children == { Child(i) : i \in 1 .. Len(StopKeys) }

Calls == Reqs \cup Children

\* lookup is what the call found in the cache ("absent", "expired", "live");
\* dsResults is how the dataset fetches of the call ended, one after the
\* other ("fetch_failed", "no_url", "parse_failed", "parsed")
IdleCall ==
  [ pc |-> "idle", stopId |-> "", dsIdx |-> 0, allTimetables |-> EmptyObject,
    seed |-> 0, dsResults |-> << >>, lookup |-> "" ]

\* cached is cacheHit as the caller reads it when the call has returned;
\* served is where the list came from ("cache", "fresh", "fallback");
\* exp is the expiry of the entry the list was read from or written to
NoResp ==
  [ stopId |-> "", outcome |-> "none", data |-> << >>,
    cached |-> FALSE, served |-> "none", ttl |-> 0, exp |-> 0,
    dsResults |-> << >>, lookup |-> "" ]

\* allData in the insertion order of its keys; pending is the number of
\* stopPromises not yet settled; nextBus is what getNextBusGlobally makes of
\* allData (<< >> is null); cached is cacheHit as the route handler of
\* GET /api/bus-times reads it. pc is "idle", "wait" (at await Promise.all),
\* "done" (allData returned) or "threw" (a stop's promise rejected).
IdleGlob ==
  [ pc |-> "idle", allData |-> << >>, pending |-> 0, nextBus |-> << >>,
    cached |-> FALSE ]

\* outcome is "ok" (200) or "error" (500); lookup is what getVehiclePositions
\* found in the live-vehicle cache ("hit", "miss"); upstream is what the
\* live-feed fetch of a miss ended with ("throws", "notok", "malformed", "live")
NoVehResp ==
  [ outcome |-> "none", vehicles |-> << >>, lookup |-> "", upstream |-> "" ]

IdleVreq == [ pc |-> [ v \in VehReqs |-> "idle" ], resp |-> NoVehResp ]

\* fetchTimetableData(datasetIds): pc is "idle", "wait" (a fetch of dataset
\* number idx is in flight) or "done" (allTimetables returned); fetched lists
\* the datasets whose fetch has started, yields what each dataset whose
\* iteration has ended parsed to (the empty object when it failed)
NoFetch ==
  [ pc |-> "idle", datasetIds |-> << >>, idx |-> 0, allTimetables |-> EmptyObject,
    seed |-> 0, fetched |-> << >>, yields |-> << >> ]

\* merged is the services array when the loop over stopConfig.routes ends,
\* enhanced the array after enhanceWithVehicleData, out the list returned
NoStage ==
  [ stopId |-> "", timetableData |-> EmptyObject, vehicles |-> << >>, time |-> 0,
    merged |-> << >>, enhanced |-> << >>, out |-> << >> ]

\* the shared state as one record, so that a handler step is a function
Cur ==
  [ cache |-> cache, vehicleCache |-> vehicleCache, cacheHit |-> cacheHit,
    calls |-> calls, glob |-> glob, resp |-> resp, fetches |-> fetches,
    rng |-> rng ]

Assign(st) ==
  \E s \in { st } :
    /\ s.fetches <= MaxFetches
    /\ cache' = s.cache
    /\ vehicleCache' = s.vehicleCache
    /\ cacheHit' = s.cacheHit
    /\ calls' = s.calls
    /\ glob' = s.glob
    /\ resp' = s.resp
    /\ fetches' = s.fetches
    /\ rng' = s.rng

Init ==
  /\ now = 0
  /\ cache = EmptyCache
  /\ vehicleCache = EmptyCache
  /\ cacheHit = FALSE
  /\ calls = [ c \in Calls |-> IdleCall ]
  /\ glob = IdleGlob
  /\ resp = NoResp
  /\ fetches = 0
  /\ fanouts = 0
  /\ ticks = 0
  /\ rng \in Seeds
  /\ vreq = IdleVreq
  /\ stage = NoStage
  /\ fetch = NoFetch

\* --------------------------------------------------------------- handlers
getNextBusGlobally(allData) ==
  LET services == flattenAllData(allData, Len(allData))
  IN scanNextBus(services, Len(services))

\* the continuation of one stop's call inside getAllClevelandCentreData
\* (allData[stopId] = ...), and, once every stop has answered, the code after
\* Promise.all; `flag` is cacheHit as the route handler then reads it
joinStop_FirstSettled(g, stopId, services, flag) ==
  LET allData == Append(g.allData, [ stopId |-> stopId, services |-> services ])
  IN IF g.pc = "wait"
     THEN [ g EXCEPT !.pc = "done", !.allData = allData, !.pending = @ - 1,
                     !.cached = flag, !.nextBus = getNextBusGlobally(allData) ]
     ELSE [ g EXCEPT !.allData = allData, !.pending = @ - 1 ]

joinStop_FailedAbsent(g, stopId, services, flag) ==
  LET failed == \A i \in DOMAIN services : services[i].source = "fallback"
      allData == IF failed THEN g.allData
                 ELSE Append(g.allData, [ stopId |-> stopId, services |-> services ])
  IN IF g.pending = 1
     THEN [ g EXCEPT !.pc = "done", !.allData = allData, !.pending = 0,
                     !.cached = flag, !.nextBus = getNextBusGlobally(allData) ]
     ELSE [ g EXCEPT !.allData = allData, !.pending = @ - 1 ]

joinStop(g, stopId, services, flag) ==
  LET allData == Append(g.allData, [ stopId |-> stopId, services |-> services ])
  IN IF g.pending = 1
     THEN [ g EXCEPT !.pc = "done", !.allData = allData, !.pending = 0,
                     !.cached = flag, !.nextBus = getNextBusGlobally(allData) ]
     ELSE [ g EXCEPT !.allData = allData, !.pending = @ - 1 ]

\* A getBusTimesForStop call returns (or throws): its caller reads cacheHit,
\* the slot is free again, and a fan-out's call is joined.
Deliver(st, c, r, time) ==
  LET full == [ r EXCEPT !.cached = st.cacheHit ]
      fb == getFallbackDataForStop(r.stopId, time, 0)
      g == IF c \notin Children THEN st.glob
           ELSE IF r.outcome = "ok"
           THEN joinStop(st.glob, r.stopId, r.data, st.cacheHit)
           ELSE IF fb.threw
           THEN \* the catch block of the map callback throws: Promise.all rejects
                [ st.glob EXCEPT !.pc = "threw", !.pending = @ - 1 ]
           ELSE joinStop(st.glob, r.stopId, fb.list, st.cacheHit)
  IN [ st EXCEPT !.resp = IF c \in Reqs THEN full ELSE @,
                 !.calls[c] = IdleCall, !.glob = g ]

\* the catch block of getBusTimesForStop
catchFallback(st, c, r, time) ==
  LET fb == getFallbackDataForStop(r.stopId, time, st.rng) IN
  IF fb.threw
  THEN Deliver(st, c, [ r EXCEPT !.outcome = "TypeError" ], time)
  ELSE Deliver([ st EXCEPT !.cache =
                   NodeCacheSet(@, r.stopId, fb.list, FALLBACK_TTL, time) ],
               c,
               [ r EXCEPT !.outcome = "ok", !.data = fb.list,
                          !.served = "fallback", !.ttl = FALLBACK_TTL,
                          !.exp = time + FALLBACK_TTL ],
               time)

\* getBusTimesForStop up to its first await
StartCall(st, c, stopId, time) ==
  LET got == NodeCacheGet(st.cache, stopId, time)
      lookup == IF stopId \notin DOMAIN st.cache THEN "absent"
                ELSE IF st.cache[stopId].t < time THEN "expired"
                ELSE "live"
      r == [ NoResp EXCEPT !.stopId = stopId, !.lookup = lookup ]
  IN IF got.found
     THEN Deliver([ st EXCEPT !.cache = got.cache, !.cacheHit = TRUE ], c,
                  [ r EXCEPT !.outcome = "ok", !.data = got.value,
                             !.served = "cache", !.exp = st.cache[stopId].t ],
                  time)
     ELSE LET missed == [ st EXCEPT !.cache = got.cache, !.cacheHit = FALSE,
                                    !.fetches = IF c \in Reqs /\ lookup # "expired"
                                                THEN @ + 1 ELSE @ ] IN
          CASE StopLookup(stopId) = "undefined" ->
                 Deliver(missed, c, [ r EXCEPT !.outcome = "UnknownStop" ], time)
            [] StopLookup(stopId) = "inherited" ->
                 \* fetchTimetableData(undefined) rejects; the catch block runs
                 catchFallback(missed, c, r, time)
            [] OTHER ->
                 \* the call draws from the generator as it stands now
                 [ missed EXCEPT !.rng = (@ + 1) % RandDen,
                                 !.calls[c] =
                     [ IdleCall EXCEPT !.pc = "dataset", !.stopId = stopId,
                                       !.dsIdx = 1, !.seed = st.rng,
                                       !.lookup = lookup ] ]

\* processBusServices, cache.set and the return of getBusTimesForStop
Complete(st, c, vehicles, time) ==
  LET call == st.calls[c]
      busServices == processBusServices(stops[call.stopId], call.allTimetables,
                                        vehicles, time, call.seed)
  IN Deliver([ st EXCEPT !.cache =
                 NodeCacheSet(@, call.stopId, busServices, CACHE_TTL, time) ],
             c,
             [ NoResp EXCEPT !.stopId = call.stopId, !.outcome = "ok",
                             !.data = busServices, !.served = "fresh",
                             !.ttl = CACHE_TTL, !.exp = time + CACHE_TTL,
                             !.dsResults = call.dsResults,
                             !.lookup = call.lookup ],
             time)

\* the end of one iteration of fetchTimetableData's loop; after the last
\* dataset, getVehiclePositions up to its first await
EndDataset(st, c, result, timetables, time) ==
  LET call == [ st.calls[c] EXCEPT !.allTimetables = timetables,
                                   !.dsResults = Append(@, result) ]
      s1 == [ st EXCEPT !.calls[c] = call ]
      got == NodeCacheGet(st.vehicleCache, VehicleKey, time)
  IN IF call.dsIdx < Len(stops[call.stopId].datasets)
     THEN [ s1 EXCEPT !.calls[c].dsIdx = @ + 1 ]
     ELSE IF got.found
          THEN Complete(s1, c, got.value, time)
          ELSE [ s1 EXCEPT !.calls[c].pc = "veh", !.vehicleCache = got.cache ]

ParseFails(doc) ==
  \/ ~ doc.wellFormed
  \/ doc.hasServices /\ parseServices(doc, Len(doc.services), 0, 0).threw

\* What upstream answers for one dataset. meta: the metadata fetch throws
\* (network error, or a body that is no JSON), answers with a non-success
\* status, or delivers metadata without or with a url; body, after a url:
\* the download throws, answers with a non-success status, or delivers doc.
DatasetOutcomes(datasetId) ==
  { [ meta |-> m, body |-> "none", doc |-> DocMalformed ] :
      m \in { "throws", "notok", "nourl" } }
    \cup { [ meta |-> "url", body |-> b, doc |-> DocMalformed ] :
             b \in { "throws", "notok" } }
    \cup { [ meta |-> "url", body |-> "ok", doc |-> d ] : d \in Docs(datasetId) }

\* the body of fetchTimetableData's loop for one dataset, from the response
\* to the metadata fetch on: how it ended, what the document parsed to and
\* allTimetables after it
mergeDataset(allTimetables, outcome, time, seed) ==
  IF outcome.meta \in { "throws", "notok" } \/ outcome.body \in { "throws", "notok" }
  THEN [ result |-> "fetch_failed", parsedData |-> EmptyObject,
         timetables |-> allTimetables ]
  ELSE IF outcome.meta = "nourl"
  THEN [ result |-> "no_url", parsedData |-> EmptyObject, timetables |-> allTimetables ]
  ELSE LET parsedData == parseTransXChange(outcome.doc, time, seed) IN
       [ result |-> IF ParseFails(outcome.doc) THEN "parse_failed" ELSE "parsed",
         parsedData |-> parsedData,
         timetables |-> ObjectAssign(allTimetables, parsedData) ]

\* one iteration of fetchTimetableData's loop, from the response to the
\* metadata fetch on (no shared state is read or written between the two
\* fetches of an iteration)
DatasetResponse(st, c, outcome, time) ==
  LET merged == mergeDataset(st.calls[c].allTimetables, outcome, time, st.calls[c].seed)
  IN EndDataset(st, c, merged.result, merged.timetables, time)

\* the fetch throws, answers with a non-success status, or delivers a document
VehicleOutcomes ==
  { [ kind |-> k, feed |-> FeedMalformed ] : k \in { "throws", "notok" } }
    \cup { [ kind |-> "ok", feed |-> f ] : f \in Feeds }

fetchVehicles_Rethrow(vc, outcome, time) ==
  IF outcome.kind \in { "throws", "notok" }
  THEN [ threw |-> TRUE, vehicles |-> << >>, vehicleCache |-> vc ]
  ELSE LET vehicles == parseSIRIVM(outcome.feed) IN
       [ threw |-> FALSE, vehicles |-> vehicles,
         vehicleCache |-> NodeCacheSet(vc, VehicleKey, vehicles, VEHICLE_CACHE_TTL, time) ]

\* getVehiclePositions from the response to its live-feed fetch on: a fetch
\* that throws and the Error thrown for a non-success status are caught and
\* give []; a document is parsed and the list is cached
fetchVehicles(vc, outcome, time) ==
  IF outcome.kind \in { "throws", "notok" }
  THEN [ threw |-> FALSE, vehicles |-> << >>, vehicleCache |-> vc ]
  ELSE LET vehicles == parseSIRIVM(outcome.feed) IN
       [ threw |-> FALSE, vehicles |-> vehicles,
         vehicleCache |-> NodeCacheSet(vc, VehicleKey, vehicles, VEHICLE_CACHE_TTL, time) ]

\* the response to the live-feed fetch of a stop's call; an error out of
\* getVehiclePositions would land in the catch block of getBusTimesForStop
VehicleResponse(st, c, outcome, time) ==
  LET got == fetchVehicles(st.vehicleCache, outcome, time)
      s1 == [ st EXCEPT !.vehicleCache = got.vehicleCache ]
  IN IF got.threw
     THEN catchFallback(s1, c,
                        [ NoResp EXCEPT !.stopId = st.calls[c].stopId,
                                        !.dsResults = st.calls[c].dsResults,
                                        !.lookup = st.calls[c].lookup ],
                        time)
     ELSE Complete(s1, c, got.vehicles, time)

\* what the live-feed fetch ended with, as the response records it
Upstream(outcome) ==
  IF outcome.kind \in { "throws", "notok" } THEN outcome.kind
  ELSE IF outcome.feed.wellFormed THEN "live" ELSE "malformed"

RECURSIVE startAll(_, _, _)
\* Object.keys(this.stops).map(...): the calls for the first n stops, each
\* run to its first await, in declaration order
startAll(st, n, time) ==
  IF n = 0 THEN st
  ELSE StartCall(startAll(st, n - 1, time), Child(n), StopKeys[n], time)

\* the dataset a call in flight is fetching
DatasetOf(c) == stops[calls[c].stopId].datasets[calls[c].dsIdx]

\* ----------------------------------------------------------------- actions
\* GET /api/bus-times/:stopId; the request takes the first free slot
Request(c, stopId) ==
  /\ calls[c].pc = "idle"
  /\ \A d \in Reqs : d < c => calls[d].pc # "idle"
  /\ Assign(StartCall(Cur, c, stopId, now))
  /\ UNCHANGED << now, fanouts, ticks, vreq, stage, fetch >>

\* upstream answers the dataset fetches of a call
DatasetResp(c) ==
  /\ calls[c].pc = "dataset"
  /\ \E outcome \in DatasetOutcomes(DatasetOf(c)) :
       Assign(DatasetResponse(Cur, c, outcome, now))
  /\ UNCHANGED << now, fanouts, ticks, vreq, stage, fetch >>

\* upstream answers the live-feed fetch of a call
VehResp(c, outcome) ==
  /\ calls[c].pc = "veh"
  /\ Assign(VehicleResponse(Cur, c, outcome, now))
  /\ UNCHANGED << now, fanouts, ticks, vreq, stage, fetch >>

\* getAllClevelandCentreData, as GET /api/bus-times and GET /api/next-bus
\* call it
GlobalStart ==
  /\ glob.pc # "wait"
  /\ fanouts < MaxFanouts
  /\ fanouts' = fanouts + 1
  /\ Assign(startAll([ Cur EXCEPT !.glob = [ IdleGlob EXCEPT !.pc = "wait",
                                                          !.pending = Len(StopKeys) ] ],
                     Len(StopKeys), now))
  /\ UNCHANGED << now, ticks, vreq, stage, fetch >>

\* GET /api/cache/status: cache.keys().length of both caches (keys() counts
\* the entries held, expired ones not yet deleted included)
CacheStatus ==
  [ timetables |-> Cardinality(DOMAIN cache), vehicles |-> Cardinality(DOMAIN vehicleCache) ]

Flush_TimetablesOnly ==
  /\ cache' = EmptyCache
  /\ resp' = NoResp
  /\ UNCHANGED << now, vehicleCache, cacheHit, calls, glob, fetches, fanouts, ticks, rng,
                  vreq, stage, fetch >>

\* POST /api/cache/clear
Flush ==
  /\ cache' = EmptyCache
  /\ vehicleCache' = EmptyCache
  /\ resp' = NoResp
  /\ UNCHANGED << now, cacheHit, calls, glob, fetches, fanouts, ticks, rng, vreq,
                  stage, fetch >>

\* node-cache's periodic sweep of both caches
CheckData ==
  /\ cache' = NodeCacheCheckData(cache, now)
  /\ vehicleCache' = NodeCacheCheckData(vehicleCache, now)
  /\ UNCHANGED << now, cacheHit, calls, glob, resp, fetches, fanouts, ticks, rng,
                  vreq, stage, fetch >>

Tick ==
  /\ ticks < Len(TickSteps)
  /\ ticks' = ticks + 1
  /\ now' = now + TickSteps[ticks + 1]
  /\ UNCHANGED << cache, vehicleCache, cacheHit, calls, glob, resp, fetches, fanouts,
                  rng, vreq, stage, fetch >>

\* GET /api/vehicles up to the first await of getVehiclePositions: a cached
\* list is returned at once; the request takes the first free slot
VehiclesRequest(v) ==
  /\ vreq.pc[v] = "idle"
  /\ \A w \in VehReqs : w < v => vreq.pc[w] # "idle"
  /\ LET got == NodeCacheGet(vehicleCache, VehicleKey, now) IN
     /\ vehicleCache' = got.cache
     /\ vreq' = IF got.found
                THEN [ vreq EXCEPT !.resp = [ outcome |-> "ok", vehicles |-> got.value,
                                              lookup |-> "hit", upstream |-> "" ] ]
                ELSE [ vreq EXCEPT !.pc[v] = "wait" ]
  /\ UNCHANGED << now, cache, cacheHit, calls, glob, resp, fetches, fanouts, ticks, rng,
                  stage, fetch >>

\* upstream answers the live-feed fetch of a GET /api/vehicles request; an
\* error out of getVehiclePositions makes the route answer 500
VehiclesResp(v, outcome) ==
  /\ vreq.pc[v] = "wait"
  /\ LET got == fetchVehicles(vehicleCache, outcome, now) IN
     /\ vehicleCache' = got.vehicleCache
     /\ vreq' = [ vreq EXCEPT !.pc[v] = "idle",
                              !.resp = [ outcome |-> IF got.threw THEN "error" ELSE "ok",
                                         vehicles |-> got.vehicles, lookup |-> "miss",
                                         upstream |-> Upstream(outcome) ] ]
  /\ UNCHANGED << now, cache, cacheHit, calls, glob, resp, fetches, fanouts, ticks, rng,
                  stage, fetch >>

\* what fetchTimetableData can return for a stop with one dataset: nothing,
\* or what parseTransXChange makes of a document of the dataset
TimetablesOf(stopId, time, seed) ==
  { EmptyObject }
    \cup { ObjectAssign(EmptyObject, parseTransXChange(doc, time, seed)) :
             doc \in Docs(stops[stopId].datasets[1]) }

\* the dataset ids of the registry
DatasetIds == { stops[k].datasets[i] : k \in Registered, i \in { 1 } }

\* the argument lists of fetchTimetableData
DatasetLists ==
  UNION { [ 1 .. n -> DatasetIds ] : n \in 1 .. MaxDatasets }

\* fetchTimetableData(datasetIds) up to the metadata fetch of the first dataset
FetchStart(datasetIds, seed) ==
  /\ fetch.pc # "wait"
  /\ fetch' = [ NoFetch EXCEPT !.pc = "wait", !.datasetIds = datasetIds, !.idx = 1,
                               !.seed = seed, !.fetched = << datasetIds[1] >> ]
  /\ UNCHANGED << now, cache, vehicleCache, cacheHit, calls, glob, resp, fetches,
                  fanouts, ticks, rng, vreq, stage >>

\* upstream answers the fetches of the dataset in flight; the loop goes on
\* to the next dataset, or fetchTimetableData returns
FetchResp(outcome) ==
  /\ fetch.pc = "wait"
  /\ LET merged == mergeDataset(fetch.allTimetables, outcome, now, fetch.seed)
         after == [ fetch EXCEPT !.allTimetables = merged.timetables,
                                 !.yields = Append(@, merged.parsedData) ]
     IN fetch' = IF fetch.idx < Len(fetch.datasetIds)
                 THEN [ after EXCEPT !.idx = @ + 1,
                                     !.fetched = Append(@, fetch.datasetIds[fetch.idx + 1]) ]
                 ELSE [ after EXCEPT !.pc = "done" ]
  /\ UNCHANGED << now, cache, vehicleCache, cacheHit, calls, glob, resp, fetches,
                  fanouts, ticks, rng, vreq, stage >>

\* processBusServices(stopConfig, timetableData, vehicles), step by step
ProcessStop(stopId, timetableData, vehicles, seed) ==
  /\ LET stopConfig == stops[stopId]
         merged == mergeRoutes(stopConfig, timetableData, Len(stopConfig.routes),
                               now, seed)
         enhanced == enhanceWithVehicleData(merged, vehicles, now, seed,
                                            Len(stopConfig.routes) * FallbackCount)
     IN stage' = [ stopId |-> stopId, timetableData |-> timetableData,
                   vehicles |-> vehicles, time |-> now, merged |-> merged,
                   enhanced |-> enhanced,
                   out |-> processBusServices(stopConfig, timetableData, vehicles,
                                              now, seed) ]
  /\ UNCHANGED << now, cache, vehicleCache, cacheHit, calls, glob, resp, fetches,
                  fanouts, ticks, rng, vreq, fetch >>

\* single-stop requests, at most MaxReq of them in flight
Next ==
  \/ \E c \in Reqs, stopId \in RequestIds : Request(c, stopId)
  \/ \E c \in Reqs : DatasetResp(c)
  \/ \E c \in Reqs, outcome \in VehicleOutcomes : VehResp(c, outcome)
  \/ Flush
  \/ CheckData
  \/ Tick

Spec == Init /\ [][Next]_vars

\* one fan-out over all stops at a time, and nothing else
NextGlobal ==
  \/ GlobalStart
  \/ \E c \in Children : DatasetResp(c)
  \/ \E c \in Children, outcome \in VehicleOutcomes : VehResp(c, outcome)
  \/ Tick

SpecGlobal == Init /\ [][NextGlobal]_vars

\* one fan-out at one instant
NextFanout ==
  \/ GlobalStart
  \/ \E c \in Children : DatasetResp(c)
  \/ \E c \in Children, outcome \in VehicleOutcomes : VehResp(c, outcome)

\* a call of the fan-out awaits the answer to a dataset fetch, to its
\* live-feed fetch
AwaitsDataset == \E c \in Children : calls[c].pc = "dataset"

AwaitsVehicles == \E c \in Children : calls[c].pc = "veh"

DatasetAnswered == \E c \in Children : DatasetResp(c)

VehiclesAnswered == \E c \in Children, outcome \in VehicleOutcomes : VehResp(c, outcome)

\* The fan-out when every upstream fetch eventually responds or fails: weak
\* fairness of the two kinds of answer, WF_vars(DatasetAnswered) and
\* WF_vars(VehiclesAnswered), written out with the guard of each action in
\* the place of ENABLED (an answer is possible exactly when a call awaits
\* one, and it always changes that call).
SpecFanoutFair ==
  /\ Init
  /\ [][NextFanout]_vars
  /\ ([]<>(~ AwaitsDataset) \/ []<><<DatasetAnswered>>_vars)
  /\ ([]<>(~ AwaitsVehicles) \/ []<><<VehiclesAnswered>>_vars)

\* the live-vehicle route and the cache operations
NextVehicles ==
  \/ \E v \in VehReqs : VehiclesRequest(v)
  \/ \E v \in VehReqs, outcome \in VehicleOutcomes : VehiclesResp(v, outcome)
  \/ Flush
  \/ CheckData
  \/ Tick

SpecVehicles == Init /\ [][NextVehicles]_vars

\* one single-stop request at a time and the cache operations
NextSeq ==
  \/ \E stopId \in RequestIds : Request(1, stopId)
  \/ DatasetResp(1)
  \/ \E outcome \in VehicleOutcomes : VehResp(1, outcome)
  \/ Flush
  \/ CheckData
  \/ Tick

SpecSeq == Init /\ [][NextSeq]_vars

\* processBusServices on its own, on every input the fetches can give it
NextProcess ==
  \/ \E stopId \in Registered, seed \in 0 .. (RandDen - 1), feed \in Feeds :
       \E timetableData \in TimetablesOf(stopId, now, seed) :
         ProcessStop(stopId, timetableData, parseSIRIVM(feed), seed)
  \/ Tick

SpecProcess == Init /\ [][NextProcess]_vars

\* fetchTimetableData on its own, on lists of up to MaxDatasets datasets
NextFetch ==
  \/ \E datasetIds \in DatasetLists, seed \in 0 .. (RandDen - 1) :
       FetchStart(datasetIds, seed)
  \/ /\ fetch.pc = "wait"
     /\ \E outcome \in DatasetOutcomes(fetch.datasetIds[fetch.idx]) : FetchResp(outcome)
  \/ Tick

SpecFetch == Init /\ [][NextFetch]_vars

\* single-stop requests, one at a time, and then a fan-out, which finds the
\* entries they have left
NextMixed ==
  \/ fanouts = 0 /\ Request(1, StandP)
  \/ calls[1].pc = "idle" /\ GlobalStart
  \/ \E c \in { 1 } \cup Children : DatasetResp(c)
  \/ \E c \in { 1 } \cup Children, outcome \in VehicleOutcomes : VehResp(c, outcome)
  \/ Tick

SpecMixed == Init /\ [][NextMixed]_vars

\* ------------------------------------------------------------------ claims
Sorted(list) ==
  \A i \in 1 .. (Len(list) - 1) :
    EffectiveTime(list[i]) <= EffectiveTime(list[i + 1])

Sources(list) == { list[i].source : i \in DOMAIN list }

\* C1: every list getBusTimesForStop returns for a registered stop, freshly
\* merged or read from the cache, has at most 8 entries and is sorted
\* non-decreasing by effective time.
Thm_C1 ==
  (resp.outcome = "ok" /\ resp.stopId \in Registered)
    => (Len(resp.data) <= MaxServices /\ Sorted(resp.data))

\* C1, its case: a full list of 8 that mixes live and synthesized services
\* is returned from the cache.
Wit_C1 ==
  /\ resp.outcome = "ok"
  /\ resp.served = "cache"
  /\ Len(resp.data) = MaxServices
  /\ { "vehicle_tracking", "fallback" } \subseteq Sources(resp.data)

AllFetchesFailed(r) ==
  /\ r.dsResults # << >>
  /\ \A i \in DOMAIN r.dsResults : r.dsResults[i] = "fetch_failed"

\* C2: when every dataset fetch of a stop fails, the list the call returns
\* has at most 6 entries and every entry has source fallback (none has
\* source vehicle_tracking).
CE_C2 ==
  (resp.outcome = "ok" /\ resp.served # "cache" /\ AllFetchesFailed(resp))
    => /\ Len(resp.data) <= MaxFallbackServices
       /\ Sources(resp.data) \subseteq { "fallback" }

SomeRetrievalFailed(r) ==
  \E i \in DOMAIN r.dsResults : r.dsResults[i] \in { "fetch_failed", "parse_failed" }

\* C3: when a dataset fetch or parse of a stop fails, the list is cached
\* with the fallback TTL of 60 s, not the default TTL of 300 s.
CE_C3 ==
  (resp.outcome = "ok" /\ resp.served # "cache" /\ SomeRetrievalFailed(resp))
    => resp.ttl = FALLBACK_TTL

\* the first service of `services` with the least effective time, as the
\* claim describes the result: << >> when there is no service
FirstEarliest(services) ==
  IF services = << >> THEN << >>
  ELSE LET i == CHOOSE k \in 1 .. Len(services) :
                  /\ \A j \in 1 .. Len(services) :
                       EffectiveTime(services[k]) <= EffectiveTime(services[j])
                  /\ \A j \in 1 .. (k - 1) :
                       EffectiveTime(services[j]) > EffectiveTime(services[k])
       IN << services[i] >>

\* the place of a stop in the declaration order of the registry
RegistryIndex(stopId) == CHOOSE n \in 1 .. Len(StopKeys) : StopKeys[n] = stopId

\* allData, stop after stop in the declaration order of the registry
InRegistryOrder(allData) ==
  [ n \in 1 .. Len(allData) |->
      allData[CHOOSE a \in 1 .. Len(allData) :
                Cardinality({ b \in 1 .. Len(allData) :
                                RegistryIndex(allData[b].stopId)
                                  <= RegistryIndex(allData[a].stopId) }) = n] ]

\* C4, as the code has it: getNextBusGlobally returns a service with the
\* least effective time of all services of all stops, and of several with
\* that time the first in the order in which the per-stop calls completed
\* (the insertion order of allData).
Thm_C4 ==
  glob.pc = "done"
    => glob.nextBus = FirstEarliest(flattenAllData(glob.allData, Len(glob.allData)))

\* C4, as the claim has it: of several services with the least effective
\* time the first in the declaration order of the stops is returned,
\* whatever order the per-stop calls complete in.
CE_C4 ==
  glob.pc = "done"
    => glob.nextBus =
         FirstEarliest(flattenAllData(InRegistryOrder(glob.allData),
                                      Len(glob.allData)))

\* C4, its case: two stops share the least effective time, and the one
\* declared later completed first.
Wit_C4 ==
  /\ glob.pc = "done"
  /\ glob.nextBus # << >>
  /\ \E a, b \in 1 .. Len(glob.allData) :
       /\ a < b
       /\ RegistryIndex(glob.allData[a].stopId) > RegistryIndex(glob.allData[b].stopId)
       /\ \E i \in DOMAIN glob.allData[a].services, j \in DOMAIN glob.allData[b].services :
            /\ EffectiveTime(glob.allData[a].services[i]) = EffectiveTime(glob.nextBus[1])
            /\ EffectiveTime(glob.allData[b].services[j]) = EffectiveTime(glob.nextBus[1])

\* the last call returned a list for a registered stop, and the entry it
\* wrote or read is within its TTL (a flush forgets the last call)
LastCallLive ==
  /\ resp.outcome = "ok"
  /\ resp.stopId \in Registered
  /\ now <= resp.exp

\* this step starts a call for stopId that misses the cache
StartsMiss(stopId) ==
  \E c \in Reqs :
    /\ calls[c].pc = "idle"
    /\ calls'[c].pc # "idle"
    /\ calls'[c].stopId = stopId

\* this step is a call for stopId that returns at once
ReturnsAtOnce(stopId) ==
  /\ calls' = calls
  /\ resp' # resp
  /\ resp'.stopId = stopId

\* C5: a call for a registered stop that follows a call for the same stop,
\* within the TTL of the entry that call wrote and with no flush in between,
\* returns the same list, and the flag read after it is true.
Thm_C5 ==
  [][ LastCallLive
        => /\ ~ StartsMiss(resp.stopId)
           /\ ReturnsAtOnce(resp.stopId)
                => /\ resp'.outcome = "ok"
                   /\ resp'.served = "cache"
                   /\ resp'.data = resp.data
                   /\ resp'.cached ]_vars

\* C5, its case: a list is returned from the cache some time after the
\* entry was written, with the flag true.
Wit_C5 ==
  /\ resp.outcome = "ok"
  /\ resp.served = "cache"
  /\ resp.cached
  /\ resp.data # << >>
  /\ now <= resp.exp
  /\ resp.exp - CACHE_TTL < now

\* C6: a call that finds the entry of its stop expired performs a fresh
\* fetch and leaves the flag false, and no list is returned from an entry
\* that has expired.
CE_C6 ==
  /\ (resp.outcome = "ok" /\ resp.lookup = "expired")
       => (resp.served = "fresh" /\ ~ resp.cached)
  /\ resp.served = "cache" => resp.lookup = "live"

\* C7: a call with a stop id that is not in the registry fails with the
\* unknown-stop error, and the service cache never holds an entry for such
\* an id.
CE_C7 ==
  /\ (resp.outcome # "none" /\ resp.stopId \notin Registered)
       => resp.outcome = "UnknownStop"
  /\ DOMAIN cache \subseteq Registered

\* C8: a call for a registered stop returns a non-empty list whatever
\* upstream does, and the unknown-stop error is the only failure a caller
\* observes.
CE_C8 ==
  /\ (resp.outcome # "none" /\ resp.stopId \in Registered)
       => (resp.outcome = "ok" /\ resp.data # << >>)
  /\ resp.outcome \in { "none", "ok", "UnknownStop" }

\* the delta rule of the claim, delta in seconds
DeltaRule(scheduled, estimated) ==
  LET delta == estimated - scheduled IN
  IF -120 < delta /\ delta < 120 THEN "onTime"
  ELSE IF delta > 300 THEN "delayed"
  ELSE IF delta < -180 THEN "early"
  ELSE "estimated"

StatusConsistent(service) ==
  IF service.source = "vehicle_tracking" THEN service.status = "live"
  ELSE service.status = DeltaRule(service.scheduledTime, service.estimatedTime)

\* C9: every service of every returned and of every cached list has status
\* live when its source is vehicle_tracking, and otherwise the status the
\* delta rule gives for its scheduled and estimated time.
Thm_C9 ==
  /\ \A i \in DOMAIN resp.data : StatusConsistent(resp.data[i])
  /\ \A k \in DOMAIN cache :
       \A i \in DOMAIN cache[k].v : StatusConsistent(cache[k].v[i])

\* C9, its case: a returned list holds a live service next to a synthesized
\* one whose estimate is off by two minutes or more.
Wit_C9 ==
  /\ resp.outcome = "ok"
  /\ \E i, j \in DOMAIN resp.data :
       /\ resp.data[i].source = "vehicle_tracking"
       /\ resp.data[j].source = "fallback"
       /\ resp.data[j].status = "estimated"

\* C10: the flag a caller reads when its call has returned is true exactly
\* when the call returned a list from the cache.
CE_C10 ==
  resp.outcome = "ok" => (resp.cached <=> resp.served = "cache")

\* ---- C11
KeysOf(allData) == { allData[i].stopId : i \in DOMAIN allData }

\* the list of a stop none of whose fetches delivered anything: fallback
\* departures only
FallbackOnly(services) ==
  /\ services # << >>
  /\ \A i \in DOMAIN services : services[i].source = "fallback"

\* C11: getAllClevelandCentreData never raises an error, whatever upstream
\* answers; the mapping it returns has one entry for every registered stop and
\* no other key, and the entry of every stop holds departures (a stop whose
\* fetches all fail holds fallback departures, it is not absent).
Thm_C11 ==
  /\ glob.pc # "threw"
  /\ glob.pc = "done"
       => /\ Len(glob.allData) = Len(StopKeys)
          /\ KeysOf(glob.allData) = Registered
          /\ \A i \in DOMAIN glob.allData : glob.allData[i].services # << >>

\* a fan-out has returned and one of its stops holds fallback departures only
Wit_C11 ==
  /\ glob.pc = "done"
  /\ \E i \in DOMAIN glob.allData : FallbackOnly(glob.allData[i].services)

\* ---- C12
\* C12: getVehiclePositions never raises an error; a call that finds no
\* unexpired snapshot in the live-vehicle cache and whose fetch throws, is
\* answered with a non-success status or delivers a malformed document
\* returns the empty list.
Thm_C12 ==
  /\ vreq.resp.outcome # "error"
  /\ vreq.resp.lookup = "miss" /\ vreq.resp.upstream \in { "throws", "notok", "malformed" }
       => vreq.resp.outcome = "ok" /\ vreq.resp.vehicles = << >>

\* a call missed the cache, its fetch got a non-success status, and it
\* returned the empty list
Wit_C12 ==
  /\ vreq.resp.lookup = "miss"
  /\ vreq.resp.upstream = "notok"
  /\ vreq.resp.outcome = "ok"
  /\ vreq.resp.vehicles = << >>

\* ---- C13
\* C13: a cache-status query that follows the cache-clear operation reports
\* zero keys for the service cache and zero keys for the live-vehicle cache.
Thm_C13 ==
  [][ Flush => CacheStatus' = [ timetables |-> 0, vehicles |-> 0 ] ]_vars

\* Before the clock has moved, a registered stop's call has run to its end
\* (which wrote the stop's entry) and the caches have been cleared since: the
\* status reports no key.
Wit_C13 ==
  /\ now = 0
  /\ rng \notin Seeds
  /\ \A c \in Calls : calls[c].pc = "idle"
  /\ resp = NoResp
  /\ CacheStatus = [ timetables |-> 0, vehicles |-> 0 ]

\* ---- C14
\* every list of Services the server holds or has handed out
HeldLists ==
  { cache[k].v : k \in DOMAIN cache }
    \cup { resp.data, glob.nextBus }
    \cup { glob.allData[i].services : i \in DOMAIN glob.allData }

\* a Service never overwritten has the source it was built with; a Service
\* overwritten by enhancement was overwritten once and is a live one
EnhancedOnce(service) ==
  /\ service.enhancements <= 1
  /\ service.enhancements = 0 => service.source \in { "timetable", "fallback" }
  /\ service.enhancements = 1
       => service.source = "vehicle_tracking" /\ service.status = "live"

\* a call for the stop returns in this step
Returns(stopId) ==
  \E c \in Calls :
    /\ calls[c].pc # "idle"
    /\ calls[c].stopId = stopId
    /\ calls'[c].pc = "idle"

\* C14: live enhancement moves a Service from timetable or fallback to
\* vehicle_tracking only; whatever calls are made (fresh aggregations, cache
\* hits, fan-outs over all stops), no Service is overwritten by enhancement
\* more than once, none goes back from vehicle_tracking to another source,
\* and a list kept in the cache is changed only by being replaced with the
\* list of a call that returns.
Thm_C14 ==
  [][ /\ \A list \in HeldLists' : \A i \in DOMAIN list : EnhancedOnce(list[i])
      /\ \A k \in DOMAIN cache \cap DOMAIN cache' :
           cache'[k] # cache[k] => Returns(k) ]_vars

\* A fan-out has returned, a single-stop request was served from the cache,
\* and both hold the same list for stand P, live Services included.
Wit_C14 ==
  /\ glob.pc = "done"
  /\ resp.served = "cache"
  /\ resp.stopId = StandP
  /\ \E i \in DOMAIN glob.allData :
       /\ glob.allData[i].stopId = StandP
       /\ glob.allData[i].services = resp.data
  /\ \E j \in DOMAIN resp.data :
       resp.data[j].source = "vehicle_tracking" /\ resp.data[j].enhancements = 1

\* ---- C15
\* at least one observation has routeNumber or lineRef equal to the
\* Service's routeNumber
HasMatch(service, vehicles) ==
  \E v \in DOMAIN vehicles :
    \/ vehicles[v].routeNumber = service.routeNumber
    \/ vehicles[v].lineRef = service.routeNumber

\* C15: live enhancement leaves every Service that has a matching vehicle
\* observation with source vehicle_tracking, status live and estimatedTime =
\* enhancement time + ETA, the ETA a whole number of minutes, at least 1;
\* every Service without a matching observation keeps its estimatedTime,
\* status and source.
Thm_C15 ==
  /\ Len(stage.enhanced) = Len(stage.merged)
  /\ \A j \in DOMAIN stage.merged :
       LET before == stage.merged[j]
           after == stage.enhanced[j]
           eta == after.estimatedTime - stage.time
       IN IF HasMatch(before, stage.vehicles)
          THEN /\ after.source = "vehicle_tracking"
               /\ after.status = "live"
               /\ eta % 60 = 0
               /\ eta >= 60
          ELSE /\ after.estimatedTime = before.estimatedTime
               /\ after.status = before.status
               /\ after.source = before.source

\* a list in which one Service had a matching observation and got the
\* smallest ETA, one minute, and another Service had none
Wit_C15 ==
  \E i, j \in DOMAIN stage.merged :
    /\ HasMatch(stage.merged[i], stage.vehicles)
    /\ stage.enhanced[i].estimatedTime = stage.time + 60
    /\ ~ HasMatch(stage.merged[j], stage.vehicles)
    /\ stage.enhanced[j] = stage.merged[j]

\* ---- C16
\* the positions of a route's Services in a list
PositionsOf(list, routeNumber) ==
  { j \in DOMAIN list : list[j].routeNumber = routeNumber }

\* the scheduled departures the schedule data holds for a route
DeparturesOf(timetableData, routeNumber) ==
  IF routeNumber \in DOMAIN timetableData THEN timetableData[routeNumber] ELSE << >>

\* C16: before sorting and truncation, the merge has emitted for each route
\* of the stop either one Service per scheduled departure of the route, all
\* with source timetable (when the schedule data holds at least one entry for
\* the route), or exactly 4 Services with source fallback (when it holds
\* none); no route of the stop is left without Services, and there are no
\* other Services.
Thm_C16 ==
  stage.stopId # ""
    => LET routes == stops[stage.stopId].routes IN
       /\ \A j \in DOMAIN stage.merged :
            \E n \in DOMAIN routes : stage.merged[j].routeNumber = routes[n]
       /\ \A n \in DOMAIN routes :
            LET at == PositionsOf(stage.merged, routes[n])
                departures == DeparturesOf(stage.timetableData, routes[n])
            IN /\ at # {}
               /\ IF Len(departures) > 0
                  THEN /\ Cardinality(at) = Len(departures)
                       /\ \A j \in at : stage.merged[j].source = "timetable"
                       /\ \A t \in DOMAIN departures :
                            \E j \in at :
                              /\ Cardinality({ i \in at : i < j }) = t - 1
                              /\ stage.merged[j].scheduledTime = departures[t].scheduled
                              /\ stage.merged[j].estimatedTime = departures[t].estimated
                  ELSE /\ Cardinality(at) = FallbackCount
                       /\ \A j \in at : stage.merged[j].source = "fallback"

\* a stop with a route that has scheduled departures, a route whose schedule
\* entry is empty and a route that has no schedule entry
Wit_C16 ==
  /\ stage.stopId # ""
  /\ \E a, b, c \in DOMAIN stops[stage.stopId].routes :
       LET routes == stops[stage.stopId].routes IN
       /\ Len(DeparturesOf(stage.timetableData, routes[a])) > 0
       /\ routes[b] \in DOMAIN stage.timetableData
       /\ Len(stage.timetableData[routes[b]]) = 0
       /\ routes[c] \notin DOMAIN stage.timetableData
       /\ Len(stage.merged) = Len(DeparturesOf(stage.timetableData, routes[a]))
                                + FallbackCount * (Len(routes) - 1)

\* ---- C17
\* the numbers of the datasets that parsed to an entry for the route
YieldersOf(yields, routeNumber) ==
  { i \in DOMAIN yields : routeNumber \in DOMAIN yields[i] }

LastOf(numbers) == CHOOSE i \in numbers : \A j \in numbers : j <= i

\* C17: fetchTimetableData fetches and merges the datasets one at a time in
\* the order of its argument list (the fetch of a dataset starts only when
\* every dataset before it has been merged or has failed), and a route in
\* the merged schedule holds the entries of the last dataset that has entries
\* for it, not those of an earlier one and not a union.
Thm_C17 ==
  /\ Len(fetch.fetched) <= Len(fetch.datasetIds)
  /\ fetch.fetched = SubSeq(fetch.datasetIds, 1, Len(fetch.fetched))
  /\ Len(fetch.yields) = IF fetch.pc = "wait" THEN Len(fetch.fetched) - 1
                         ELSE Len(fetch.fetched)
  /\ fetch.pc = "done"
       => /\ Len(fetch.yields) = Len(fetch.datasetIds)
          /\ DOMAIN fetch.allTimetables =
               UNION { DOMAIN fetch.yields[i] : i \in DOMAIN fetch.yields }
          /\ \A routeNumber \in DOMAIN fetch.allTimetables :
               fetch.allTimetables[routeNumber] =
                 fetch.yields[LastOf(YieldersOf(fetch.yields, routeNumber))][routeNumber]

\* a run over two datasets that both had entries for a route, not the same
\* ones, has returned
Wit_C17 ==
  /\ fetch.pc = "done"
  /\ Len(fetch.yields) = 2
  /\ \E routeNumber \in DOMAIN fetch.yields[1] \cap DOMAIN fetch.yields[2] :
       /\ fetch.yields[1][routeNumber] # << >>
       /\ fetch.yields[2][routeNumber] # << >>
       /\ fetch.yields[1][routeNumber] # fetch.yields[2][routeNumber]
       /\ fetch.allTimetables[routeNumber] = fetch.yields[2][routeNumber]

\* ---- C18
\* the cache holds an entry for the stop that has not expired
HoldsLive(stopId) ==
  stopId \in DOMAIN cache /\ cache[stopId].t >= now

\* C18: a getBusTimesForStop call that finds an unexpired entry for the stop
\* returns that entry at once: no fetch is started (the calls in flight are
\* those that were in flight before), and both caches keep their keys, their
\* values and their expiry times.
Thm_C18 ==
  [][ \A c \in Reqs, stopId \in RequestIds :
        Request(c, stopId) /\ HoldsLive(stopId)
          => /\ resp'.outcome = "ok"
             /\ resp'.stopId = stopId
             /\ resp'.data = cache[stopId].v
             /\ calls' = calls
             /\ cache' = cache
             /\ vehicleCache' = vehicleCache ]_vars

\* a call was served from an entry written at an earlier instant, while
\* another call is in flight and the live-vehicle cache holds a snapshot
Wit_C18 ==
  /\ resp.served = "cache"
  /\ resp.stopId \in DOMAIN cache
  /\ resp.data = cache[resp.stopId].v
  /\ cache[resp.stopId].t < now + CACHE_TTL
  /\ \E c \in Reqs : calls[c].pc # "idle"
  /\ VehicleKey \in DOMAIN vehicleCache

\* ---- C19
InFlight(c) == calls[c].pc \in { "dataset", "veh" }

\* the call finishes its aggregation in this step
Finishes(c) == InFlight(c) /\ calls'[c].pc = "idle"

\* C19: two getBusTimesForStop calls for the same stop that both miss the
\* cache are not coalesced: a call that misses starts its own dataset fetch
\* also while another call for the stop is in flight, neither call touches the
\* other, and when either finishes, the stop's entry is exactly the complete
\* list that call returns, whatever the entry held before; so after both, the
\* entry is the list of the call that wrote last, never a mixture.
Thm_C19 ==
  [][ /\ \A c \in Reqs, stopId \in Registered :
           Request(c, stopId) /\ ~ HoldsLive(stopId)
             => /\ calls'[c].pc = "dataset"
                /\ calls'[c].stopId = stopId
                /\ \A d \in Reqs \ { c } : calls'[d] = calls[d]
      /\ \A c \in Reqs :
           Finishes(c)
             => /\ resp'.stopId = calls[c].stopId
                /\ resp'.served = "fresh"
                /\ calls[c].stopId \in DOMAIN cache'
                /\ cache'[calls[c].stopId] = [ v |-> resp'.data, t |-> now + CACHE_TTL ]
                /\ \A d \in Reqs \ { c } : calls'[d] = calls[d] ]_vars

\* Two calls for a stop missed the cache and were in flight together: one has
\* returned and the entry is its list, the other (which found no live entry
\* when it started) is still fetching.
Wit_C19 ==
  \E c \in Reqs :
    /\ InFlight(c)
    /\ calls[c].stopId = resp.stopId
    /\ resp.served = "fresh"
    /\ resp.lookup = "absent"
    /\ calls[c].lookup = "absent"
    /\ resp.stopId \in DOMAIN cache
    /\ cache[resp.stopId].v = resp.data
    /\ resp.data # << >>

\* ---- C20
\* C20: when every upstream fetch eventually responds or fails, a call of
\* getAllClevelandCentreData (and getNextBusGlobally on top of it) eventually
\* completes; it completes only when the aggregation of every registered stop
\* has completed, and it then holds an entry for every stop, those whose
\* fetches all failed included.
Thm_C20 ==
  /\ (glob.pc = "wait") ~> (glob.pc = "done")
  /\ [](glob.pc = "done"
          => /\ \A c \in Children : calls[c].pc = "idle"
             /\ glob.pending = 0
             /\ KeysOf(glob.allData) = Registered)
  /\ [](glob.pc = "wait"
          => glob.pending = Cardinality({ c \in Children : calls[c].pc # "idle" }))

\* a fan-out has completed in which the fetches of one stop all failed and
\* those of another stop delivered scheduled departures
Wit_C20 ==
  /\ glob.pc = "done"
  /\ \A c \in Children : calls[c].pc = "idle"
  /\ \E i, j \in DOMAIN glob.allData :
       /\ FallbackOnly(glob.allData[i].services)
       /\ \E n \in DOMAIN glob.allData[j].services :
            glob.allData[j].services[n].source = "timetable"

\* ---- C21
\* the schedule entries the last run of processBusServices was given
EntriesSeen ==
  UNION { { stage.timetableData[r][t] : t \in DOMAIN stage.timetableData[r] } :
            r \in DOMAIN stage.timetableData }

\* its Services after the merge, after enhancement and as returned
ServicesSeen ==
  { stage.merged[j] : j \in DOMAIN stage.merged }
    \cup { stage.enhanced[j] : j \in DOMAIN stage.enhanced }
    \cup { stage.out[j] : j \in DOMAIN stage.out }

\* C21: no schedule entry and no Service ever has status delayed or early:
\* a schedule-derived estimate is at most 2 minutes off its scheduled time, a
\* fallback estimate at most 3 minutes, and the status is always one of
\* onTime, estimated and live.
Thm_C21 ==
  /\ \A entry \in EntriesSeen :
       /\ entry.status \in { "onTime", "estimated" }
       /\ Abs(entry.estimated - entry.scheduled) <= 120
  /\ \A service \in ServicesSeen :
       /\ service.status \in { "onTime", "estimated", "live" }
       /\ service.source = "timetable"
            => Abs(service.estimatedTime - service.scheduledTime) <= 120
       /\ service.source = "fallback"
            => Abs(service.estimatedTime - service.scheduledTime) <= 180

\* a returned list holds a schedule-derived Service a full 2 minutes ahead of
\* its scheduled time and a fallback Service a full 3 minutes ahead
Wit_C21 ==
  \E i, j \in DOMAIN stage.out :
    /\ stage.out[i].source = "timetable"
    /\ stage.out[i].estimatedTime = stage.out[i].scheduledTime - 120
    /\ stage.out[i].status = "estimated"
    /\ stage.out[j].source = "fallback"
    /\ stage.out[j].estimatedTime = stage.out[j].scheduledTime - 180
    /\ stage.out[j].status = "estimated"

\* ---- C22
\* every Service of the list is of a configured route of the stop and of the
\* stop's first configured operator
BelongsTo(list, stopId) ==
  \A i \in DOMAIN list :
    /\ \E n \in DOMAIN stops[stopId].routes :
         list[i].routeNumber = stops[stopId].routes[n]
    /\ list[i].operator = stops[stopId].operators[1]

\* C22: every Service in the list returned or cached for a registered stop
\* has a routeNumber that is one of the stop's configured routes and the
\* stop's first configured operator, whatever other routes the schedule data
\* or the live feed contain.
Thm_C22 ==
  /\ resp.outcome = "ok" /\ resp.stopId \in Registered
       => BelongsTo(resp.data, resp.stopId)
  /\ \A stopId \in DOMAIN cache \cap Registered : BelongsTo(cache[stopId].v, stopId)

\* Stand P's call parsed a schedule document that also holds a route of
\* stand Q and a route of no stop, met a live feed with vehicles of other
\* stops' routes, and returned Services of both its routes, which are cached.
Wit_C22 ==
  /\ resp.stopId = StandP
  /\ resp.served = "fresh"
  /\ resp.dsResults = << "parsed" >>
  /\ \E i, j \in DOMAIN resp.data :
       /\ resp.data[i].routeNumber = "17A"
       /\ resp.data[i].source = "vehicle_tracking"
       /\ resp.data[j].routeNumber = "17B"
  /\ StandP \in DOMAIN cache
  /\ cache[StandP].v = resp.data

====
